---- MODULE Spec2Model ----
(***************************************************************************)
(* A model of src/app.py: the Snowflake validation tool.                   *)
(*                                                                         *)
(*   - validate_kpis (lines 203-302), step by step: the registry query,    *)
(*     the two trial queries on ORDER_DATA, the per-KPI loop;              *)
(*   - compare_table_differences (lines 95-125) and                        *)
(*     compare_column_differences (lines 127-201), as run by the           *)
(*     "Run Validation" handler (lines 449-475), once or repeatedly;       *)
(*   - the table-name substitution of lines 259 and 266, character by      *)
(*     character;                                                          *)
(*   - the login section of main (lines 317-357).                          *)
(*                                                                         *)
(* The database is the environment: what a statement returns, or that it   *)
(* raises, is chosen nondeterministically when the statement is executed.  *)
(* String literals of the source that carry an emoji prefix are written    *)
(* without it ("Match" for the source's check-mark Match, and so on).      *)
(***************************************************************************)
EXTENDS Integers, Sequences, FiniteSets, TLC

VARIABLES
    pc,                 \* position in validate_kpis
    selected_kpis,      \* argument: the KPI names ticked in the UI
    kpis,               \* rows fetched from ORDER_KPIS (line 216)
    source_has_table,   \* line 224/226
    target_has_table,   \* line 230/232
    idx,                \* position of the for loop of line 256 in kpis
    result_source,      \* line 261/263
    result_clone,       \* line 268/270
    results,            \* the list of result rows (line 206)
    message,            \* the second component of the return value
    executed,           \* every statement handed to cursor.execute, in order
    val_pc,             \* position in the "Run Validation" handler
    catalog,            \* the database: per schema, the tables and their columns
    hash_order,         \* the process's iteration order of a set of column names
    table_diff,         \* the rows compare_table_differences returns
    column_diff,        \* column_diff_data (line 144)
    datatype_diff,      \* datatype_diff_data (line 145)
    previous_run,       \* history: what the last completed run stored (line 468)
    sub_pc,             \* position in the two substitutions of lines 259, 266
    database,           \* argument of validate_kpis, as characters
    source_schema,      \* argument of validate_kpis, as characters
    target_schema,      \* argument of validate_kpis, as characters
    kpi_sql,            \* a KPI's SQL template, as characters
    source_query,       \* line 259
    clone_query,        \* line 266
    conn,               \* st.session_state.conn
    login_success,      \* st.session_state.login_success
    conn_details,       \* st.session_state.conn_details
    connections         \* every connection opened so far, and whether it is open

kpiVars == <<pc, selected_kpis, kpis, source_has_table, target_has_table,
             idx, result_source, result_clone, results, message, executed>>

schemaVars == <<val_pc, catalog, hash_order, table_diff, column_diff,
                datatype_diff, previous_run>>

subVars == <<sub_pc, database, source_schema, target_schema, kpi_sql,
             source_query, clone_query>>

uiVars == <<conn, login_success, conn_details, connections>>

vars == <<kpiVars, schemaVars, subVars, uiVars>>

\* what an action of validate_kpis leaves alone
nonKpiVars == <<schemaVars, subVars, uiVars>>

\* what an action of the "Run Validation" handler leaves alone
nonSchemaVars == <<kpiVars, subVars, uiVars>>

----------------------------------------------------------------------------
(* Bounds *)

\* How many of the UI's KPI check boxes (and ORDER_KPIS rows) are modelled.
NumKpis == 2

\* How many table names exist.
NumTables == 2

----------------------------------------------------------------------------
(* Python values *)

\* Numbers are rationals n / FloatDen: every such value of the small range
\* used here is a binary float exactly, so float(x) and the subtraction of
\* line 279 are exact.
FloatDen == 2 ^ 8

\* round(x, 2) yields hundredths.
RoundDen == 10 * 10

PyInt(k) == [tag |-> "int", n |-> k * FloatDen, s |-> ""]
PyFloat(u) == [tag |-> "float", n |-> u, s |-> ""]
PyStr(x) == [tag |-> "str", n |-> 0, s |-> x]
PyNone == [tag |-> "None", n |-> 0, s |-> ""]

\* isinstance(v, (int, float)), line 278
IsNumeric(v) == v.tag \in {"int", "float"}

Abs(x) == IF x < 0 THEN -x ELSE x

\* The digits after the decimal point of r / den, 0 <= r < den.
RECURSIVE FracDigits(_, _)
FracDigits(r, den) ==
    IF r = 0 THEN ""
    ELSE ToString((r * 10) \div den) \o FracDigits((r * 10) % den, den)

\* repr of the float num / den (den > 0); negz is the sign bit of a zero.
FloatRepr(num, den, negz) ==
    LET a == Abs(num)
        frac == a % den
    IN  (IF num < 0 \/ (num = 0 /\ negz) THEN "-" ELSE "")
        \o ToString(a \div den) \o "."
        \o (IF frac = 0 THEN "0" ELSE FracDigits(frac, den))

\* str(v), line 282
PyStrOf(v) ==
    CASE v.tag = "str" -> v.s
      [] v.tag = "None" -> "None"
      [] v.tag = "int" -> ToString(v.n \div FloatDen)
      [] v.tag = "float" -> FloatRepr(v.n, FloatDen, FALSE)

\* num / den (den > 0) rounded to the nearest integer, ties to even: what
\* Python's round does to an exactly represented value.
RoundHalfEven(num, den) ==
    LET q == num \div den
        r == num % den
    IN  IF 2 * r < den THEN q
        ELSE IF 2 * r > den THEN q + 1
        ELSE IF q % 2 = 0 THEN q ELSE q + 1

----------------------------------------------------------------------------
(* validate_kpis: the comparison of lines 272-296 *)

\* "N/A": the initial value of diff and pct_diff (lines 273-274)
NA == [tag |-> "str", h |-> 0, negz |-> FALSE, s |-> "N/A"]

\* A float that round(., 2) returned: h hundredths; negz is the sign of a zero.
Rounded(h, negz) == [tag |-> "float", h |-> h, negz |-> negz, s |-> ""]

\* NumericDiff with the operands exchanged.
NumericDiffSwapped(src, cln) == cln.n - src.n

\* diff = float(result_source) - float(result_clone), line 279 (over FloatDen)
NumericDiff(src, cln) == src.n - cln.n

\* diff == 0, line 281
DiffIsZero(src, cln) == NumericDiff(src, cln) = 0

\* float(result_source) != 0, the guard of line 280
SourceNonZero(src) == src.n # 0

\* the 'Difference' cell, line 293: round(diff, 2) of a float diff, else diff
DifferenceCell(src, cln) ==
    IF IsNumeric(src) /\ IsNumeric(cln)
    THEN LET d == NumericDiff(src, cln)
             h == RoundHalfEven(d * RoundDen, FloatDen)
         IN  Rounded(h, h = 0 /\ d < 0)
    ELSE NA

\* DiffPctCell with 0.0 in place of float('inf') for a zero source.
DiffPctCellZeroForZeroSource(src, cln) ==
    IF IsNumeric(src) /\ IsNumeric(cln)
    THEN IF SourceNonZero(src)
         THEN LET d == NumericDiff(src, cln)
                  sgn == IF src.n < 0 THEN -1 ELSE 1
                  h == RoundHalfEven(sgn * d * 100 * RoundDen, sgn * src.n)
                  neg == sgn * d < 0 \/ (d = 0 /\ sgn < 0)
              IN  FloatRepr(h, RoundDen, h = 0 /\ neg) \o "%"
         ELSE "0.0%"
    ELSE "N/A"

\* the 'Diff %' cell, line 294: f"{round(pct_diff, 2)}%" of the pct_diff of
\* line 280, else "N/A".  (diff / source) * 100 is taken as the exact
\* quotient, which is what the float computation rounds to for the values of
\* CompareOutcomes and QueryOutcomes.
DiffPctCell(src, cln) ==
    IF IsNumeric(src) /\ IsNumeric(cln)
    THEN IF SourceNonZero(src)
         THEN LET d == NumericDiff(src, cln)
                  sgn == IF src.n < 0 THEN -1 ELSE 1
                  h == RoundHalfEven(sgn * d * 100 * RoundDen, sgn * src.n)
                  neg == sgn * d < 0 \/ (d = 0 /\ sgn < 0)
              IN  FloatRepr(h, RoundDen, h = 0 /\ neg) \o "%"
         ELSE "inf%"
    ELSE "N/A"

\* StatusCell comparing the raw values where line 282 compares their str().
StatusCellRawEquality(src, cln) ==
    IF IsNumeric(src) /\ IsNumeric(cln)
    THEN IF DiffIsZero(src, cln) THEN "Match" ELSE "Mismatch"
    ELSE IF src = cln THEN "Match" ELSE "Mismatch"

\* status, lines 275-283
StatusCell(src, cln) ==
    IF IsNumeric(src) /\ IsNumeric(cln)
    THEN IF DiffIsZero(src, cln) THEN "Match" ELSE "Mismatch"
    ELSE IF PyStrOf(src) = PyStrOf(cln) THEN "Match" ELSE "Mismatch"

\* the row appended at lines 287-296
ResultRow(kpi, src, cln) ==
    [kpi_id |-> kpi.kpi_id, kpi_name |-> kpi.kpi_name, query |-> kpi.kpi_sql,
     source_value |-> src, clone_value |-> cln,
     difference |-> DifferenceCell(src, cln),
     diff_pct |-> DiffPctCell(src, cln),
     status |-> StatusCell(src, cln)]

\* ErrorMsg with the two single-side branches exchanged.
ErrorMsgSwapped(src_has, tgt_has) ==
    "ORDER_DATA table missing in "
    \o (IF ~src_has /\ ~tgt_has THEN "both schemas"
        ELSE IF ~src_has THEN "target schema"
        ELSE "source schema")

\* error_msg, lines 235-241
ErrorMsg(src_has, tgt_has) ==
    "ORDER_DATA table missing in "
    \o (IF ~src_has /\ ~tgt_has THEN "both schemas"
        ELSE IF ~src_has THEN "source schema"
        ELSE "target schema")

\* the row appended at lines 244-253
ErrorRow(kpi, error_msg) ==
    [kpi_id |-> kpi.kpi_id, kpi_name |-> kpi.kpi_name, query |-> kpi.kpi_sql,
     source_value |-> PyStr("ERROR: " \o error_msg),
     clone_value |-> PyStr("ERROR: " \o error_msg),
     difference |-> NA, diff_pct |-> "N/A", status |-> "Error"]

\* the rows of the loop of lines 243-253
ErrorRows(rows, error_msg) ==
    [i \in 1..Len(rows) |-> ErrorRow(rows[i], error_msg)]

----------------------------------------------------------------------------
(* validate_kpis: the database *)

\* The check boxes of the KPI tab, in the order lines 550-558 append them.
KpiNameList ==
    <<"Total Orders", "Total Revenue", "Average Order Value",
      "Max Order Value", "Min Order Value", "Completed Orders",
      "Cancelled Orders", "Orders in April 2025", "Unique Customers">>

KpiIds == 1..NumKpis

\* The ORDER_KPIS row of KPI i: (KPI_ID, KPI_NAME, KPI_VALUE).  The SQL
\* template KPI_VALUE is identified by the KPI it belongs to.
KpiRow(i) == [kpi_id |-> i, kpi_name |-> KpiNameList[i], kpi_sql |-> i]

\* selected_kpis as lines 549-558 build it from the ticked boxes S.
SelectedList(S) ==
    SelectSeq([i \in 1..NumKpis |-> KpiNameList[i]],
              LAMBDA name : \E i \in S : KpiNameList[i] = name)

Range(seq) == {seq[i] : i \in 1..Len(seq)}

\* All orders a set of rows can be returned in.
Orderings(S) ==
    {f \in [1..Cardinality(S) -> S] : \A i, j \in 1..Cardinality(S) :
                                          i # j => f[i] # f[j]}

\* WHERE KPI_NAME IN (...), line 213
MatchesSelection(row, selected) == row.kpi_name \in Range(selected)

\* What the query of lines 210-216 can return: the rows of the table (any
\* set of rows, the table's content being the database's) that the WHERE
\* clause keeps, in any order (the query has no ORDER BY).
RegistryAnswers(selected) ==
    UNION {Orderings({KpiRow(i) : i \in T}) :
             T \in SUBSET {i \in KpiIds : MatchesSelection(KpiRow(i), selected)}}

\* What executing a KPI query can do: raise, return no row, or return rows
\* whose first column of the first row is value.
Raises(msg) == [raises |-> TRUE, msg |-> msg, rowcount |-> 0, value |-> PyNone]
Returns(rowcount, value) ==
    [raises |-> FALSE, msg |-> "", rowcount |-> rowcount, value |-> value]

QueryOutcomes ==
    {Raises("SQL compilation error"), Returns(0, PyNone),
     Returns(1, PyInt(100)), Returns(1, PyInt(80))}

\* lines 261-263 and 268-270: the value captured for one side
Captured(outcome) ==
    IF outcome.raises THEN PyStr("QUERY_ERROR: " \o outcome.msg)
    ELSE IF outcome.rowcount > 0 THEN outcome.value
    ELSE PyNone

\* A statement handed to cursor.execute, and whether executing it raised.
Stmt(kind, schema, sql, raised) ==
    [kind |-> kind, schema |-> schema, sql |-> sql, raised |-> raised]

----------------------------------------------------------------------------
(* validate_kpis: the steps *)

NoValue == PyNone

\* The "Run KPI Validation" button (lines 547-570) with the boxes S ticked:
\* validate_kpis is entered, results = [] (line 206).
CallValidateKpis ==
    /\ pc = "idle"
    /\ \E S \in SUBSET KpiIds :
          /\ S # {}                      \* line 560: nothing selected, no call
          /\ selected_kpis' = SelectedList(S)
    /\ pc' = "fetch"
    /\ results' = <<>>
    /\ UNCHANGED <<kpis, source_has_table, target_has_table, idx,
                   result_source, result_clone, message, executed>>
    /\ UNCHANGED nonKpiVars

\* lines 210-219: the registry query returns; no row ends the call.
FetchKpis ==
    /\ pc = "fetch"
    /\ \E rows \in RegistryAnswers(selected_kpis) :
          /\ kpis' = rows
          /\ executed' = Append(executed, Stmt("registry", "source", 0, FALSE))
          /\ IF rows = <<>>
             THEN /\ pc' = "done"
                  /\ message' = "No matching KPIs found in ORDER_KPIS table."
             ELSE /\ pc' = "check_source"
                  /\ UNCHANGED message
    /\ UNCHANGED <<selected_kpis, source_has_table, target_has_table, idx,
                   result_source, result_clone, results>>
    /\ UNCHANGED nonKpiVars

\* lines 215, 301-302: the registry query raises; the outer handler returns
\* an empty frame.
FetchKpisRaises ==
    /\ pc = "fetch"
    /\ executed' = Append(executed, Stmt("registry", "source", 0, TRUE))
    /\ message' = "KPI validation failed"
    /\ pc' = "done"
    /\ UNCHANGED <<selected_kpis, kpis, source_has_table, target_has_table,
                   idx, result_source, result_clone, results>>
    /\ UNCHANGED nonKpiVars

\* lines 222-226: the trial query on the source schema
CheckSourceTable ==
    /\ pc = "check_source"
    /\ \E ok \in BOOLEAN :
          /\ source_has_table' = ok
          /\ executed' = Append(executed, Stmt("trial", "source", 0, ~ok))
    /\ pc' = "check_target"
    /\ UNCHANGED <<selected_kpis, kpis, target_has_table, idx, result_source,
                   result_clone, results, message>>
    /\ UNCHANGED nonKpiVars

\* lines 228-234: the trial query on the target schema, and the branch
CheckTargetTable ==
    /\ pc = "check_target"
    /\ \E ok \in BOOLEAN :
          /\ target_has_table' = ok
          /\ pc' = IF ~source_has_table \/ ~ok THEN "missing" ELSE "source_query"
          /\ executed' = Append(executed, Stmt("trial", "target", 0, ~ok))
    /\ idx' = 1
    /\ UNCHANGED <<selected_kpis, kpis, source_has_table, result_source,
                   result_clone, results, message>>
    /\ UNCHANGED nonKpiVars

\* lines 235-254: an Error row per fetched KPI, and return
MissingOrderData ==
    /\ pc = "missing"
    /\ results' = results \o ErrorRows(kpis, ErrorMsg(source_has_table,
                                                      target_has_table))
    /\ message' = "Validation failed - missing ORDER_DATA table"
    /\ pc' = "done"
    /\ UNCHANGED <<selected_kpis, kpis, source_has_table, target_has_table,
                   idx, result_source, result_clone, executed>>
    /\ UNCHANGED nonKpiVars

\* RunSourceQuery without the try of line 257: an error of the source query
\* reaches the handler of line 301 and ends the call.
RunSourceQueryAborting ==
    /\ pc = "source_query"
    /\ idx <= Len(kpis)
    /\ \E outcome \in QueryOutcomes :
          /\ executed' = Append(executed, Stmt("kpi", "source",
                                               kpis[idx].kpi_sql, outcome.raises))
          /\ IF outcome.raises
             THEN /\ pc' = "done"
                  /\ message' = "KPI validation failed"
                  /\ UNCHANGED result_source
             ELSE /\ pc' = "clone_query"
                  /\ result_source' = Captured(outcome)
                  /\ UNCHANGED message
    /\ UNCHANGED <<selected_kpis, kpis, source_has_table, target_has_table,
                   idx, result_clone, results>>
    /\ UNCHANGED nonKpiVars

\* lines 257-263: the source side of kpis[idx]
RunSourceQuery ==
    /\ pc = "source_query"
    /\ idx <= Len(kpis)
    /\ \E outcome \in QueryOutcomes :
          /\ result_source' = Captured(outcome)
          /\ executed' = Append(executed, Stmt("kpi", "source",
                                               kpis[idx].kpi_sql, outcome.raises))
    /\ pc' = "clone_query"
    /\ UNCHANGED <<selected_kpis, kpis, source_has_table, target_has_table,
                   idx, result_clone, results, message>>
    /\ UNCHANGED nonKpiVars

\* lines 265-270: the clone side of kpis[idx]
RunCloneQuery ==
    /\ pc = "clone_query"
    /\ \E outcome \in QueryOutcomes :
          /\ result_clone' = Captured(outcome)
          /\ executed' = Append(executed, Stmt("kpi", "target",
                                               kpis[idx].kpi_sql, outcome.raises))
    /\ pc' = "compare"
    /\ UNCHANGED <<selected_kpis, kpis, source_has_table, target_has_table,
                   idx, result_source, results, message>>
    /\ UNCHANGED nonKpiVars

\* AppendResult putting the new row first.
AppendResultPrepending ==
    /\ pc = "compare"
    /\ results' = <<ResultRow(kpis[idx], result_source, result_clone)>>
                   \o results
    /\ idx' = idx + 1
    /\ pc' = "source_query"
    /\ UNCHANGED <<selected_kpis, kpis, source_has_table, target_has_table,
                   result_source, result_clone, message, executed>>
    /\ UNCHANGED nonKpiVars

\* lines 272-296: compare, append the row, go to the next KPI
AppendResult ==
    /\ pc = "compare"
    /\ results' = Append(results, ResultRow(kpis[idx], result_source,
                                            result_clone))
    /\ idx' = idx + 1
    /\ pc' = "source_query"
    /\ UNCHANGED <<selected_kpis, kpis, source_has_table, target_has_table,
                   result_source, result_clone, message, executed>>
    /\ UNCHANGED nonKpiVars

\* lines 298-299: the loop is over
Finish ==
    /\ pc = "source_query"
    /\ idx > Len(kpis)
    /\ message' = "KPI validation completed"
    /\ pc' = "done"
    /\ UNCHANGED <<selected_kpis, kpis, source_has_table, target_has_table,
                   idx, result_source, result_clone, results, executed>>
    /\ UNCHANGED nonKpiVars

----------------------------------------------------------------------------
(* The schema comparison: the database *)

\* Table names, represented by their rank in the order ORDER BY sorts them.
Tables == 1..NumTables

Columns == {"ORDER_ID", "AMOUNT"}

Types == {"NUMBER(38,0)", "VARCHAR(16777216)"}

\* What DESCRIBE TABLE can report: a type for each column of a non-empty set
\* of columns.  (To keep the catalogs few, ORDER_ID has one type only.)
ColMaps ==
    {m \in UNION {[D -> Types] : D \in (SUBSET Columns) \ {{}}} :
        "ORDER_ID" \in DOMAIN m => m["ORDER_ID"] = "NUMBER(38,0)"}

\* The tables of one schema and their columns.
SchemaCatalogs == UNION {[T -> ColMaps] : T \in SUBSET Tables}

Schemas == {"source", "clone"}

\* SQL NULL, and Python's None in a type cell
NULL == 0
None == "None"

\* SELECT table_name FROM information_schema.tables WHERE table_schema = ...
\* (lines 100-109, 133-138)
TableNames(schema) == DOMAIN catalog[schema]

\* DESCRIBE TABLE and the dict of lines 149-156: column name -> type
DescribeTable(schema, table) == catalog[schema][table]

----------------------------------------------------------------------------
(* compare_table_differences, lines 95-125 *)

\* FullOuterJoin as a LEFT JOIN: the clone's unmatched names are lost.
LeftJoin(S, C) ==
    {[s |-> x, c |-> x] : x \in S \cap C}
    \cup {[s |-> x, c |-> NULL] : x \in S \ C}

\* source_tables s FULL OUTER JOIN clone_tables c ON s.table_name =
\* c.table_name, line 117-118: a row per matching pair, and a row with NULL
\* on the other side per unmatched name.
FullOuterJoin(S, C) ==
    {[s |-> x, c |-> x] : x \in S \cap C}
    \cup {[s |-> x, c |-> NULL] : x \in S \ C}
    \cup {[s |-> NULL, c |-> x] : x \in C \ S}

\* WHERE s.table_name IS NULL OR c.table_name IS NULL, line 119
WhereUnmatched(row) == row.s = NULL \/ row.c = NULL

\* COALESCE(s.table_name, c.table_name), line 111
Coalesce(a, b) == IF a # NULL THEN a ELSE b

\* TableDifference with the two labels exchanged.
TableDifferenceSwapped(row) ==
    IF row.s = NULL THEN "Missing in clone - Table Added"
    ELSE IF row.c = NULL THEN "Missing in source - Table Dropped"
    ELSE "Present in both"

\* the CASE of lines 112-116
TableDifference(row) ==
    IF row.s = NULL THEN "Missing in source - Table Dropped"
    ELSE IF row.c = NULL THEN "Missing in clone - Table Added"
    ELSE "Present in both"

\* the SELECT list of lines 110-116 over the filtered join
TableDiffRows(S, C) ==
    {[table |-> Coalesce(row.s, row.c), difference |-> TableDifference(row)] :
        row \in {r \in FullOuterJoin(S, C) : WhereUnmatched(r)}}

\* The rank of a difference label in string order: "Missing in c..." <
\* "Missing in s..." < "Present in both".
DifferenceRank(label) ==
    CASE label = "Missing in clone - Table Added" -> 1
      [] label = "Missing in source - Table Dropped" -> 2
      [] label = "Present in both" -> 3

\* OrderByLeq for ORDER BY table_name alone.
OrderByLeqNameOnly(a, b) == a.table <= b.table

\* ORDER BY difference, table_name (line 120): a before-or-equal b
OrderByLeq(a, b) ==
    \/ DifferenceRank(a.difference) < DifferenceRank(b.difference)
    \/ /\ a.difference = b.difference
       /\ a.table <= b.table

\* The orders ORDER BY can return the rows in.
OrderBy(rows) ==
    {f \in Orderings(rows) :
        \A i, j \in 1..Cardinality(rows) : i < j => OrderByLeq(f[i], f[j])}

----------------------------------------------------------------------------
(* compare_column_differences, lines 127-201 *)

\* the join of lines 132-139: the names in both schemas
CommonTables(S, C) == {x \in S : x \in C}

\* all_columns, line 159
AllColumns(source_cols, clone_cols) ==
    DOMAIN source_cols \cup DOMAIN clone_cols

\* The order the for loop of line 161 visits a set of column names in.
IterationOrder(S) == SelectSeq(hash_order, LAMBDA col : col \in S)

\* ColumnDiffOf with the two labels exchanged.
ColumnDiffOfSwapped(table, col, source_cols, clone_cols) ==
    IF col \notin DOMAIN source_cols
    THEN <<[table |-> table, column |-> col,
            difference |-> "Missing in clone - Column Added",
            source_type |-> None, clone_type |-> clone_cols[col]]>>
    ELSE IF col \notin DOMAIN clone_cols
    THEN <<[table |-> table, column |-> col,
            difference |-> "Missing in source - Column Dropped",
            source_type |-> source_cols[col], clone_type |-> None]>>
    ELSE <<>>

\* lines 165-180: what one column appends to column_diff_data
ColumnDiffOf(table, col, source_cols, clone_cols) ==
    IF col \notin DOMAIN source_cols
    THEN <<[table |-> table, column |-> col,
            difference |-> "Missing in source - Column Dropped",
            source_type |-> None, clone_type |-> clone_cols[col]]>>
    ELSE IF col \notin DOMAIN clone_cols
    THEN <<[table |-> table, column |-> col,
            difference |-> "Missing in clone - Column Added",
            source_type |-> source_cols[col], clone_type |-> None]>>
    ELSE <<>>

\* dict.get: the type of a column, None when the dict has no such column.
DictGet(cols, col) == IF col \in DOMAIN cols THEN cols[col] ELSE None

\* DatatypeDiffOf outside the else of line 181, comparing with dict.get: a
\* column of one side only has a type that differs from None.
DatatypeDiffOfUnguarded(table, col, source_cols, clone_cols) ==
    IF DictGet(source_cols, col) # DictGet(clone_cols, col)
    THEN <<[table |-> table, column |-> col,
            source_type |-> DictGet(source_cols, col),
            clone_type |-> DictGet(clone_cols, col),
            difference |-> "Data Type Changed"]>>
    ELSE <<>>

\* lines 181-190: what one column appends to datatype_diff_data
DatatypeDiffOf(table, col, source_cols, clone_cols) ==
    IF /\ col \in DOMAIN source_cols
       /\ col \in DOMAIN clone_cols
       /\ source_cols[col] # clone_cols[col]
    THEN <<[table |-> table, column |-> col,
            source_type |-> source_cols[col], clone_type |-> clone_cols[col],
            difference |-> "Data Type Changed"]>>
    ELSE <<>>

\* the loop of lines 161-190 over one table's columns, for either list
RECURSIVE ColumnLoop(_, _, _, _, _)
ColumnLoop(table, cols, source_cols, clone_cols, datatype) ==
    IF cols = <<>> THEN <<>>
    ELSE (IF datatype
          THEN DatatypeDiffOf(table, Head(cols), source_cols, clone_cols)
          ELSE ColumnDiffOf(table, Head(cols), source_cols, clone_cols))
         \o ColumnLoop(table, Tail(cols), source_cols, clone_cols, datatype)

\* the loop of lines 147-190 over the common tables, for either list
RECURSIVE TableLoop(_, _)
TableLoop(common_tables, datatype) ==
    IF common_tables = <<>> THEN <<>>
    ELSE LET table == Head(common_tables)
             source_cols == DescribeTable("source", table)
             clone_cols == DescribeTable("clone", table)
             all_columns == AllColumns(source_cols, clone_cols)
         IN  ColumnLoop(table, IterationOrder(all_columns), source_cols,
                        clone_cols, datatype)
             \o TableLoop(Tail(common_tables), datatype)

----------------------------------------------------------------------------
(* The "Run Validation" handler, lines 449-475 *)

\* line 449: the button is pressed
RunValidation ==
    /\ val_pc = "idle"
    /\ val_pc' = "compare_tables"
    /\ UNCHANGED <<catalog, hash_order, previous_run, table_diff, column_diff, datatype_diff>>
    /\ UNCHANGED nonSchemaVars

\* lines 452-454: compare_table_differences
CompareTableDifferences ==
    /\ val_pc = "compare_tables"
    /\ \E rows \in OrderBy(TableDiffRows(TableNames("source"),
                                         TableNames("clone"))) :
          table_diff' = rows
    /\ val_pc' = "compare_columns"
    /\ UNCHANGED <<catalog, hash_order, previous_run, column_diff, datatype_diff>>
    /\ UNCHANGED nonSchemaVars

\* DESCRIBE TABLE that reports no column for a table the schema lacks.
DescribeOrEmpty(schema, table) ==
    IF table \in TableNames(schema) THEN catalog[schema][table] ELSE <<>>

\* TableLoop over tables that need not be in both schemas.
RECURSIVE TableLoopLenient(_, _)
TableLoopLenient(tables, datatype) ==
    IF tables = <<>> THEN <<>>
    ELSE LET table == Head(tables)
             source_cols == DescribeOrEmpty("source", table)
             clone_cols == DescribeOrEmpty("clone", table)
             all_columns == AllColumns(source_cols, clone_cols)
         IN  ColumnLoop(table, IterationOrder(all_columns), source_cols,
                        clone_cols, datatype)
             \o TableLoopLenient(Tail(tables), datatype)

\* CompareColumnDifferences looping over every table of the source schema.
CompareColumnDifferencesOfSourceTables ==
    /\ val_pc = "compare_columns"
    /\ \E tables \in Orderings(TableNames("source")) :
          /\ column_diff' = TableLoopLenient(tables, FALSE)
          /\ datatype_diff' = TableLoopLenient(tables, TRUE)
    /\ val_pc' = "done"
    /\ UNCHANGED <<catalog, hash_order, previous_run, table_diff>>
    /\ UNCHANGED nonSchemaVars

\* lines 457-459: compare_column_differences; the join of lines 132-139
\* returns the common tables in any order.
CompareColumnDifferences ==
    /\ val_pc = "compare_columns"
    /\ \E common_tables \in Orderings(CommonTables(TableNames("source"),
                                                   TableNames("clone"))) :
          /\ column_diff' = TableLoop(common_tables, FALSE)
          /\ datatype_diff' = TableLoop(common_tables, TRUE)
    /\ val_pc' = "done"
    /\ UNCHANGED <<catalog, hash_order, previous_run, table_diff>>
    /\ UNCHANGED nonSchemaVars

\* A statement of compare_table_differences or compare_column_differences
\* raises: nothing catches it and the handler ends without results.
ValidationRaises ==
    /\ val_pc \in {"compare_tables", "compare_columns"}
    /\ val_pc' = "failed"
    /\ UNCHANGED <<catalog, hash_order, previous_run, table_diff, column_diff, datatype_diff>>
    /\ UNCHANGED nonSchemaVars

----------------------------------------------------------------------------
(* The table-name substitution of validate_kpis, lines 259 and 266:        *)
(*   re.sub(r'\bORDER_DATA\b', f'{database}.{schema}.ORDER_DATA',          *)
(*          kpi_sql, flags=re.IGNORECASE)                                  *)
(* A text is a sequence of characters.                                     *)

LowerCase ==
    <<"a", "b", "c", "d", "e", "f", "g", "h", "i", "j", "k", "l", "m">>
    \o <<"n", "o", "p", "q", "r", "s", "t", "u", "v", "w", "x", "y", "z">>

UpperCase ==
    <<"A", "B", "C", "D", "E", "F", "G", "H", "I", "J", "K", "L", "M">>
    \o <<"N", "O", "P", "Q", "R", "S", "T", "U", "V", "W", "X", "Y", "Z">>

Digits == {"0", "1", "2", "3", "4", "5", "6", "7", "8", "9"}

\* \w, the class \b is defined by: letters, digits and the underscore
IsWordChar(ch) ==
    ch \in Range(LowerCase) \cup Range(UpperCase) \cup Digits \cup {"_"}

\* re.IGNORECASE: two characters match when they are equal after case folding
CaseFold(ch) ==
    IF \E k \in 1..Len(LowerCase) : LowerCase[k] = ch
    THEN UpperCase[CHOOSE k \in 1..Len(LowerCase) : LowerCase[k] = ch]
    ELSE ch

\* the literal ORDER_DATA of the pattern and of the replacement
ORDER_DATA == <<"O", "R", "D", "E", "R", "_", "D", "A", "T", "A">>

\* A pattern without \b matches at every position.
AtAnyPosition(text, p) == TRUE

\* \b before the p-th character (p = Len(text) + 1: at the end of the text):
\* exactly one of the two neighbours is a word character
AtWordBoundary(text, p) ==
    LET before == p > 1 /\ IsWordChar(text[p - 1])
        after == p <= Len(text) /\ IsWordChar(text[p])
    IN  before # after

\* the pattern \bORDER_DATA\b matches at position p of text
MatchAt(text, p) ==
    /\ p + Len(ORDER_DATA) - 1 <= Len(text)
    /\ AtWordBoundary(text, p)
    /\ \A k \in 1..Len(ORDER_DATA) : CaseFold(text[p + k - 1]) = ORDER_DATA[k]
    /\ AtWordBoundary(text, p + Len(ORDER_DATA))

\* re.sub scanning from position p: the leftmost match is replaced and the
\* scan goes on after it; the replacement is not scanned again.
RECURSIVE ReSubFrom(_, _, _)
ReSubFrom(repl, text, p) ==
    IF p > Len(text) THEN <<>>
    ELSE IF MatchAt(text, p)
         THEN repl \o ReSubFrom(repl, text, p + Len(ORDER_DATA))
         ELSE <<text[p]>> \o ReSubFrom(repl, text, p + 1)

ReSub(repl, text) == ReSubFrom(repl, text, 1)

\* f'{database}.{schema}.ORDER_DATA'
QualifiedName(db, schema) == db \o <<".">> \o schema \o <<".">> \o ORDER_DATA

\* line 259
SubstituteSource ==
    /\ sub_pc = "source"
    /\ source_query' = ReSub(QualifiedName(database, source_schema), kpi_sql)
    /\ sub_pc' = "clone"
    /\ UNCHANGED <<database, source_schema, target_schema, kpi_sql,
                   clone_query>>
    /\ UNCHANGED <<kpiVars, schemaVars, uiVars>>

\* line 266
SubstituteClone ==
    /\ sub_pc = "clone"
    /\ clone_query' = ReSub(QualifiedName(database, target_schema), kpi_sql)
    /\ sub_pc' = "done"
    /\ UNCHANGED <<database, source_schema, target_schema, kpi_sql,
                   source_query>>
    /\ UNCHANGED <<kpiVars, schemaVars, uiVars>>

\* The pieces templates are built of, and how many a template has at most.
MaxPieces == 4

Fragments ==
    {ORDER_DATA,
     <<"o", "r", "d", "e", "r", "_", "d", "a", "t", "a">>,
     <<"M", "Y", "_">>,
     <<"_", "V", "2">>,
     <<"2">>, <<" ">>, <<".">>}

RECURSIVE Flatten(_)
Flatten(pieces) ==
    IF pieces = <<>> THEN <<>> ELSE Head(pieces) \o Flatten(Tail(pieces))

Templates ==
    {Flatten(pieces) :
        pieces \in UNION {[1..n -> Fragments] : n \in 0..MaxPieces}}

DatabaseNames == {<<"D", "B">>}

\* the schemas offered for the source side, and the one of the clone side
SchemaNames == {<<"S", "R", "C">>, <<"C", "L", "N">>}

TargetSchemaNames == {<<"C", "L", "N">>}

\* No substitution is under way.
SubIdle ==
    /\ sub_pc = "idle"
    /\ database = <<>>
    /\ source_schema = <<>>
    /\ target_schema = <<>>
    /\ kpi_sql = <<>>
    /\ source_query = <<>>
    /\ clone_query = <<>>

----------------------------------------------------------------------------
(* The login section of main, lines 317-357 *)

\* None as the value of st.session_state.conn (lines 26, 32, 319)
NoConn == 0

\* 'conn_details' is not in st.session_state / is {} (line 354)
NotSet == [present |-> FALSE, user |-> "", account |-> ""]

EmptyDict == [present |-> TRUE, user |-> "", account |-> ""]

\* {"user": user, "account": account} (line 340)
Details(user, account) == [present |-> TRUE, user |-> user, account |-> account]

\* The session after one successful login: the tabs are rendered.
UiLoggedIn ==
    /\ connections = <<[user |-> "alice", account |-> "xy12345", open |-> TRUE]>>
    /\ conn = 1
    /\ login_success = TRUE
    /\ conn_details = Details("alice", "xy12345")

\* The session of a page opened for the first time, lines 317-323.
UiIdle ==
    /\ connections = <<>>
    /\ conn = NoConn
    /\ login_success = FALSE
    /\ conn_details = NotSet

\* what is typed into the form, and how many connections a session opens
Users == {"alice", "bob"}

Accounts == {"xy12345", "ab67890"}

MaxConnections == 3

\* lines 335-342, get_snowflake_connection returning a connection (line 24):
\* the connection the session held before is not closed.
SubmitLoginSucceeds ==
    /\ Len(connections) < MaxConnections
    /\ \E user \in Users, account \in Accounts :
          /\ connections' = Append(connections,
                 [user |-> user, account |-> account, open |-> TRUE])
          /\ conn_details' = Details(user, account)
    /\ conn' = Len(connections) + 1
    /\ login_success' = TRUE
    /\ UNCHANGED <<kpiVars, schemaVars, subVars>>

\* lines 335-338 and 343-344, get_snowflake_connection returning None
\* (line 26): conn is overwritten, login_success is not touched.
SubmitLoginFails ==
    /\ conn' = NoConn
    /\ UNCHANGED <<login_success, conn_details, connections>>
    /\ UNCHANGED <<kpiVars, schemaVars, subVars>>

\* lines 346-357 with disconnect_snowflake (lines 28-32): the button is
\* rendered only when login_success is true.
Disconnect ==
    /\ login_success
    /\ connections' = IF conn # NoConn
                      THEN [connections EXCEPT ![conn].open = FALSE]
                      ELSE connections
    /\ conn' = NoConn
    /\ login_success' = FALSE
    /\ conn_details' = EmptyDict
    /\ UNCHANGED <<kpiVars, schemaVars, subVars>>

\* the value 'previous_run' has before any run is completed
NoRun ==
    [ran |-> FALSE, table_diff |-> <<>>, column_diff |-> <<>>,
     datatype_diff |-> <<>>]

\* lines 468-475: the handler stores the three lists in
\* st.session_state.val_results and ends; the button can be pressed again.
StoreResults ==
    /\ val_pc = "done"
    /\ previous_run' = [ran |-> TRUE, table_diff |-> table_diff,
                        column_diff |-> column_diff,
                        datatype_diff |-> datatype_diff]
    /\ val_pc' = "idle"
    /\ UNCHANGED <<catalog, hash_order, table_diff, column_diff, datatype_diff>>
    /\ UNCHANGED nonSchemaVars

\* The server process is started anew (line 594) after a completed run: the
\* hash seed of str, and with it the iteration order of a set of column
\* names (lines 159-161), is drawn again; the report of the earlier run
\* stays with its reader.
RestartProcess ==
    /\ val_pc = "idle"
    /\ previous_run.ran
    /\ hash_order' \in Orderings(Columns)
    /\ table_diff' = <<>>
    /\ column_diff' = <<>>
    /\ datatype_diff' = <<>>
    /\ UNCHANGED <<val_pc, catalog, previous_run>>
    /\ UNCHANGED nonSchemaVars

----------------------------------------------------------------------------
(* Specifications *)

\* validate_kpis has not been called.
KpiIdle ==
    /\ pc = "idle"
    /\ selected_kpis = <<>>
    /\ kpis = <<>>
    /\ source_has_table = FALSE
    /\ target_has_table = FALSE
    /\ idx = 1
    /\ result_source = NoValue
    /\ result_clone = NoValue
    /\ results = <<>>
    /\ message = ""
    /\ executed = <<>>

\* "Run Validation" has not been pressed.
SchemaIdle ==
    /\ val_pc = "idle"
    /\ table_diff = <<>>
    /\ column_diff = <<>>
    /\ datatype_diff = <<>>
    /\ previous_run = NoRun

\* The KPI tab, over a database without tables to compare.
Init ==
    /\ KpiIdle
    /\ SchemaIdle
    /\ catalog = [schema \in Schemas |-> <<>>]
    /\ hash_order = <<>>
    /\ SubIdle
    /\ UiLoggedIn

Next ==
    \/ CallValidateKpis
    \/ FetchKpis
    \/ FetchKpisRaises
    \/ CheckSourceTable
    \/ CheckTargetTable
    \/ MissingOrderData
    \/ RunSourceQuery
    \/ RunCloneQuery
    \/ AppendResult
    \/ Finish

Spec == Init /\ [][Next]_vars

\* The Schema Validation tab, over every catalog of the two schemas.
InitSchema ==
    /\ KpiIdle
    /\ SchemaIdle
    /\ catalog \in [Schemas -> SchemaCatalogs]
    /\ hash_order \in Orderings(Columns)
    /\ SubIdle
    /\ UiLoggedIn

NextSchema ==
    \/ RunValidation
    \/ CompareTableDifferences
    \/ CompareColumnDifferences
    \/ ValidationRaises

SpecSchema == InitSchema /\ [][NextSchema]_vars

\* The Schema Validation tab used again and again on unchanged catalogs.
NextRerun ==
    \/ RunValidation
    \/ CompareTableDifferences
    \/ CompareColumnDifferences
    \/ ValidationRaises
    \/ StoreResults
    \/ RestartProcess

SpecRerun == InitSchema /\ [][NextRerun]_vars

\* The comparison of lines 272-296 over the values a KPI query can yield:
\* validate_kpis has fetched one KPI and executed both of its queries.
CompareOutcomes ==
    {Returns(1, PyInt(k)) : k \in {0, 5, 80, 100, -5}}
    \cup {Returns(1, PyFloat(u)) : u \in {32, 256, 257, 25600}}
    \cup {Returns(1, PyStr(x)) : x \in {"100", "abc"}}
    \cup {Returns(0, PyNone), Raises("SQL compilation error"),
          Raises("Statement timed out")}

InitCompare ==
    /\ pc = "compare"
    /\ selected_kpis = SelectedList({1})
    /\ kpis = <<KpiRow(1)>>
    /\ source_has_table = TRUE
    /\ target_has_table = TRUE
    /\ idx = 1
    /\ \E src, cln \in CompareOutcomes :
          /\ result_source = Captured(src)
          /\ result_clone = Captured(cln)
          /\ executed = <<Stmt("registry", "source", 0, FALSE),
                          Stmt("trial", "source", 0, FALSE),
                          Stmt("trial", "target", 0, FALSE),
                          Stmt("kpi", "source", 1, src.raises),
                          Stmt("kpi", "target", 1, cln.raises)>>
    /\ results = <<>>
    /\ message = ""
    /\ SchemaIdle
    /\ catalog = [schema \in Schemas |-> <<>>]
    /\ hash_order = <<>>
    /\ SubIdle
    /\ UiLoggedIn

NextCompare ==
    \/ AppendResult
    \/ Finish

SpecCompare == InitCompare /\ [][NextCompare]_vars

\* The substitution over every template, for one KPI of a call of
\* validate_kpis.
InitSubstitute ==
    /\ KpiIdle
    /\ SchemaIdle
    /\ catalog = [schema \in Schemas |-> <<>>]
    /\ hash_order = <<>>
    /\ UiLoggedIn
    /\ sub_pc = "source"
    /\ database \in DatabaseNames
    /\ source_schema \in SchemaNames
    /\ target_schema \in TargetSchemaNames
    /\ kpi_sql \in Templates
    /\ source_query = <<>>
    /\ clone_query = <<>>

NextSubstitute ==
    \/ SubstituteSource
    \/ SubstituteClone

SpecSubstitute == InitSubstitute /\ [][NextSubstitute]_vars

\* The login section: the form and the Disconnect button, in any order.
InitUi ==
    /\ KpiIdle
    /\ SchemaIdle
    /\ catalog = [schema \in Schemas |-> <<>>]
    /\ hash_order = <<>>
    /\ SubIdle
    /\ UiIdle

NextUi ==
    \/ SubmitLoginSucceeds
    \/ SubmitLoginFails
    \/ Disconnect

SpecUi == InitUi /\ [][NextUi]_vars


----------------------------------------------------------------------------
(* Claims about validate_kpis *)

\* The KPI statements executed so far, in order.
KpiStmts == SelectSeq(executed, LAMBDA st : st.kind = "kpi")

TrialRaised(schema) ==
    \E i \in 1..Len(executed) :
        /\ executed[i].kind = "trial"
        /\ executed[i].schema = schema
        /\ executed[i].raised

TrialsRan ==
    \E i \in 1..Len(executed) :
        executed[i].kind = "trial" /\ executed[i].schema = "target"

PreconditionFailed ==
    TrialsRan /\ (TrialRaised("source") \/ TrialRaised("target"))

PreconditionHolds ==
    TrialsRan /\ ~TrialRaised("source") /\ ~TrialRaised("target")

\* The value an Error row must carry, by which trial query failed.
MissingText ==
    IF TrialRaised("source") /\ TrialRaised("target")
    THEN "ERROR: ORDER_DATA table missing in both schemas"
    ELSE IF TrialRaised("source")
    THEN "ERROR: ORDER_DATA table missing in source schema"
    ELSE "ERROR: ORDER_DATA table missing in target schema"

IsMissingRow(row) ==
    /\ row.status = "Error"
    /\ row.source_value = PyStr(MissingText)
    /\ row.clone_value = PyStr(MissingText)

\* C1 as stated: when a trial query on ORDER_DATA failed, every KPI of the
\* selection has an Error row naming the side(s) lacking the table, and no
\* KPI statement was executed.
C1_EveryRequestedKpiIsError ==
    (pc = "done" /\ PreconditionFailed) =>
        /\ \A k \in 1..Len(selected_kpis) :
              \E i \in 1..Len(results) :
                  /\ results[i].kpi_name = selected_kpis[k]
                  /\ IsMissingRow(results[i])
        /\ KpiStmts = <<>>

\* C1, amended: when a trial query on ORDER_DATA failed, every KPI definition
\* the registry query returned has exactly one row, that row has status
\* Error and source and clone values naming the side(s) lacking the table
\* ("target schema" when only the clone lacks it), and no KPI statement is
\* executed on either side.
C1_MissingTableShortCircuits ==
    PreconditionFailed =>
        /\ KpiStmts = <<>>
        /\ pc = "done" =>
              /\ Len(results) = Len(kpis)
              /\ \A i \in 1..Len(kpis) :
                    /\ results[i].kpi_id = kpis[i].kpi_id
                    /\ results[i].kpi_name = kpis[i].kpi_name
                    /\ IsMissingRow(results[i])

\* Only the clone lacks ORDER_DATA and two KPIs were fetched.
C1_Witness ==
    /\ pc = "done"
    /\ TrialRaised("target") /\ ~TrialRaised("source")
    /\ Len(results) = 2
    /\ results[1].source_value =
           PyStr("ERROR: ORDER_DATA table missing in target schema")

ErrorTagged ==
    {PyStr("QUERY_ERROR: " \o o.msg) : o \in {q \in QueryOutcomes : q.raises}}

\* C2: when both trial queries succeeded, the call ends with one row per
\* fetched KPI definition, in which a side's value is an error-tagged string
\* exactly when that side's statement raised; both statements of every KPI
\* were executed, source then clone, whatever raised before.
C2_QueryErrorsIsolated ==
    (pc = "done" /\ PreconditionHolds) =>
        /\ Len(results) = Len(kpis)
        /\ Len(KpiStmts) = 2 * Len(kpis)
        /\ \A i \in 1..Len(kpis) :
              /\ results[i].kpi_id = kpis[i].kpi_id
              /\ KpiStmts[2 * i - 1].schema = "source"
              /\ KpiStmts[2 * i - 1].sql = kpis[i].kpi_sql
              /\ KpiStmts[2 * i].schema = "target"
              /\ KpiStmts[2 * i].sql = kpis[i].kpi_sql
              /\ KpiStmts[2 * i - 1].raised
                    <=> results[i].source_value \in ErrorTagged
              /\ KpiStmts[2 * i].raised
                    <=> results[i].clone_value \in ErrorTagged

\* The source query of the first KPI raised, its clone query returned 100,
\* and the second KPI was evaluated on both sides.
C2_Witness ==
    /\ pc = "done"
    /\ PreconditionHolds
    /\ Len(results) = 2
    /\ results[1].source_value \in ErrorTagged
    /\ results[1].clone_value = PyInt(100)
    /\ IsNumeric(results[2].source_value)
    /\ IsNumeric(results[2].clone_value)

\* The position of a name in selected_kpis (0: not in it).
SelectedPos(name) ==
    IF \E k \in 1..Len(selected_kpis) : selected_kpis[k] = name
    THEN CHOOSE k \in 1..Len(selected_kpis) : selected_kpis[k] = name
    ELSE 0

\* C3 as stated: the rows returned are in the order of selected_kpis.
C3_RowsInSelectionOrder ==
    pc = "done" =>
        \A i, j \in 1..Len(results) :
            i < j => SelectedPos(results[i].kpi_name)
                         < SelectedPos(results[j].kpi_name)

\* C3, amended: the rows returned are in the order in which the registry
\* query returned the KPI definitions: row i is the row of definition i.
C3_RowsInRegistryOrder ==
    /\ Len(results) <= Len(kpis)
    /\ \A i \in 1..Len(results) : results[i].kpi_name = kpis[i].kpi_name
    /\ pc = "done" => Len(results) = Len(kpis)

\* The registry returned two definitions in the reverse of the selection's
\* order, and both were evaluated.
C3_Witness ==
    /\ pc = "done"
    /\ PreconditionHolds
    /\ Len(results) = 2
    /\ SelectedPos(results[1].kpi_name) > SelectedPos(results[2].kpi_name)

----------------------------------------------------------------------------
(* Claims about the comparison of two captured values *)

BothNumeric(row) ==
    IsNumeric(row.source_value) /\ IsNumeric(row.clone_value)

\* source - clone of a row, over FloatDen
SourceMinusClone(row) == row.source_value.n - row.clone_value.n

\* C9 as stated: when both values are numeric, the reported difference is
\* source - clone, the status is Match iff it is 0, and never Error.
C9_DifferenceIsSourceMinusClone ==
    \A i \in 1..Len(results) :
        BothNumeric(results[i]) =>
            /\ results[i].difference.tag = "float"
            /\ results[i].difference.h * FloatDen
                   = SourceMinusClone(results[i]) * RoundDen
            /\ results[i].status = "Match"
                   <=> SourceMinusClone(results[i]) = 0
            /\ results[i].status \in {"Match", "Mismatch"}

\* C9, amended: when both values are numeric, the reported difference is
\* source - clone rounded to two decimals (within half a hundredth of it),
\* the status is Match iff the unrounded source - clone is 0, else Mismatch,
\* and never Error.
C9_DifferenceIsRoundedSourceMinusClone ==
    \A i \in 1..Len(results) :
        BothNumeric(results[i]) =>
            /\ results[i].difference.tag = "float"
            /\ 2 * Abs(results[i].difference.h * FloatDen
                       - SourceMinusClone(results[i]) * RoundDen) <= FloatDen
            /\ results[i].status = "Match"
                   <=> SourceMinusClone(results[i]) = 0
            /\ results[i].status \in {"Match", "Mismatch"}

\* Two numbers that differ by less than half a hundredth: the reported
\* difference is 0.0 and the status Mismatch.
C9_Witness ==
    \E i \in 1..Len(results) :
        /\ BothNumeric(results[i])
        /\ SourceMinusClone(results[i]) # 0
        /\ results[i].difference.h = 0
        /\ results[i].status = "Mismatch"

\* C10: equal numeric values give status Match, difference 0 and percent
\* difference 0.0%.
C10_EqualNumbersZeroPercent ==
    \A i \in 1..Len(results) :
        (BothNumeric(results[i]) /\ SourceMinusClone(results[i]) = 0) =>
            /\ results[i].status = "Match"
            /\ results[i].difference.tag = "float"
            /\ results[i].difference.h = 0
            /\ results[i].diff_pct = "0.0%"

\* C11: a numeric zero source and a different numeric clone give percent
\* difference +infinity (the cell reads "inf%") and status Mismatch.
C11_ZeroSourceIsInfinite ==
    \A i \in 1..Len(results) :
        (/\ BothNumeric(results[i])
         /\ results[i].source_value.n = 0
         /\ results[i].clone_value.n # 0) =>
            /\ results[i].diff_pct = "inf%"
            /\ results[i].status = "Mismatch"

\* source = 0 and clone = 5
C11_Witness ==
    \E i \in 1..Len(results) :
        /\ results[i].source_value = PyInt(0)
        /\ results[i].clone_value = PyInt(5)
        /\ results[i].diff_pct = "inf%"

\* C12: when the two values are not both numeric, the status is Match iff
\* their string forms are equal, else Mismatch, difference and percent are
\* "N/A", and None on both sides gives Match.
C12_StringEqualityFallback ==
    \A i \in 1..Len(results) :
        ~BothNumeric(results[i]) =>
            /\ results[i].status = "Match"
                   <=> PyStrOf(results[i].source_value)
                          = PyStrOf(results[i].clone_value)
            /\ results[i].status \in {"Match", "Mismatch"}
            /\ results[i].difference = NA
            /\ results[i].diff_pct = "N/A"
            /\ (results[i].source_value = PyNone
                    /\ results[i].clone_value = PyNone)
                   => results[i].status = "Match"

\* The number 100 on one side and the text "100" on the other: different
\* values with one string form, reported as Match.
C12_Witness ==
    \E i \in 1..Len(results) :
        /\ results[i].source_value = PyInt(100)
        /\ results[i].clone_value = PyStr("100")
        /\ results[i].status = "Match"
        /\ results[i].difference = NA

----------------------------------------------------------------------------
(* Claims about the schema comparison *)

SourceTables == TableNames("source")
CloneTables == TableNames("clone")

\* compare_table_differences has returned.
TablesCompared == val_pc \in {"compare_columns", "done"}

TableDiffNames == {table_diff[i].table : i \in 1..Len(table_diff)}

\* C4: the table comparison's output holds exactly the names of the
\* symmetric difference, each once.
C4_TableDiffIsSymmetricDifference ==
    TablesCompared =>
        /\ Len(table_diff) = Cardinality(SourceTables \cup CloneTables)
                             - Cardinality(SourceTables \cap CloneTables)
        /\ Cardinality(TableDiffNames) = Len(table_diff)
        /\ TableDiffNames \cap (SourceTables \cap CloneTables) = {}
        /\ TableDiffNames \subseteq SourceTables \cup CloneTables
        /\ \A x \in Tables :
              (x \in SourceTables) # (x \in CloneTables)
                  => x \in TableDiffNames

\* A table in both schemas and a table in one of them only.
C4_Witness ==
    /\ TablesCompared
    /\ SourceTables \cap CloneTables # {}
    /\ Len(table_diff) >= 1

\* C5 as stated: a source-only table is labelled 'Missing in source - Table
\* Dropped', a clone-only table 'Missing in clone - Table Added'.
C5_SourceOnlyIsDroppedFromSource ==
    TablesCompared =>
        \A i \in 1..Len(table_diff) :
            /\ table_diff[i].table \in SourceTables \ CloneTables
                  => table_diff[i].difference
                         = "Missing in source - Table Dropped"
            /\ table_diff[i].table \in CloneTables \ SourceTables
                  => table_diff[i].difference
                         = "Missing in clone - Table Added"

\* C5, amended: a table in the clone schema only is labelled 'Missing in
\* source - Table Dropped', a table in the source schema only 'Missing in
\* clone - Table Added'.
C5_LabelNamesTheSideLackingTheTable ==
    TablesCompared =>
        \A i \in 1..Len(table_diff) :
            /\ table_diff[i].table \in CloneTables \ SourceTables
                  => table_diff[i].difference
                         = "Missing in source - Table Dropped"
            /\ table_diff[i].table \in SourceTables \ CloneTables
                  => table_diff[i].difference
                         = "Missing in clone - Table Added"

\* One table in the source only and one in the clone only.
C5_Witness ==
    /\ TablesCompared
    /\ \E i, j \in 1..Len(table_diff) :
          /\ table_diff[i].table \in SourceTables \ CloneTables
          /\ table_diff[j].table \in CloneTables \ SourceTables

\* How many rows of a list describe column col of table x.
RowCount(list, x, col) ==
    Cardinality({i \in 1..Len(list) :
                    list[i].table = x /\ list[i].column = col})

\* C6: for a table in both schemas, a (table, column) pair is in the type
\* list exactly when the column is on both sides with types that differ, in
\* the column list exactly when it is on one side only, never in both, and
\* in neither when it is on both sides with equal types.
C6_ColumnListsPartition ==
    val_pc = "done" =>
        \A x \in SourceTables \cap CloneTables : \A col \in Columns :
            LET in_source == col \in DOMAIN catalog["source"][x]
                in_clone == col \in DOMAIN catalog["clone"][x]
                n_col == RowCount(column_diff, x, col)
                n_type == RowCount(datatype_diff, x, col)
            IN  /\ n_type = (IF /\ in_source /\ in_clone
                                /\ catalog["source"][x][col]
                                       # catalog["clone"][x][col]
                             THEN 1 ELSE 0)
                /\ n_col = (IF in_source # in_clone THEN 1 ELSE 0)
                /\ ~(n_col > 0 /\ n_type > 0)

\* A table in both schemas with a column whose type changed and a column on
\* one side only.
C6_Witness ==
    /\ val_pc = "done"
    /\ \E i \in 1..Len(column_diff), j \in 1..Len(datatype_diff) :
          column_diff[i].table = datatype_diff[j].table

\* C7 as stated: a column absent from the source is labelled 'Missing in
\* clone - Column Added', a column absent from the clone 'Missing in source -
\* Column Dropped'.
C7_AbsentFromSourceIsColumnAdded ==
    val_pc = "done" =>
        \A i \in 1..Len(column_diff) :
            LET row == column_diff[i]
            IN  /\ row.column \notin DOMAIN catalog["source"][row.table]
                      => row.difference = "Missing in clone - Column Added"
                /\ row.column \notin DOMAIN catalog["clone"][row.table]
                      => row.difference = "Missing in source - Column Dropped"

\* C7, amended: a column of a common table that is absent from the source
\* side is labelled 'Missing in source - Column Dropped' (with no source
\* type), and a column absent from the clone side 'Missing in clone - Column
\* Added' (with no clone type).
C7_LabelNamesTheSideLackingTheColumn ==
    val_pc = "done" =>
        \A i \in 1..Len(column_diff) :
            LET row == column_diff[i]
            IN  /\ row.column \notin DOMAIN catalog["source"][row.table]
                      => /\ row.difference
                                = "Missing in source - Column Dropped"
                         /\ row.source_type = None
                         /\ row.clone_type
                                = catalog["clone"][row.table][row.column]
                /\ row.column \notin DOMAIN catalog["clone"][row.table]
                      => /\ row.difference = "Missing in clone - Column Added"
                         /\ row.clone_type = None
                         /\ row.source_type
                                = catalog["source"][row.table][row.column]

\* A common table with a column absent from the source and a column absent
\* from the clone.
C7_Witness ==
    /\ val_pc = "done"
    /\ \E i, j \in 1..Len(column_diff) :
          /\ column_diff[i].table = column_diff[j].table
          /\ column_diff[i].source_type = None
          /\ column_diff[j].clone_type = None

\* C8: rows of the column and the type list describe tables of both
\* schemas only.
C8_OnlyCommonTablesDescribed ==
    /\ \A i \in 1..Len(column_diff) :
          column_diff[i].table \in SourceTables \cap CloneTables
    /\ \A i \in 1..Len(datatype_diff) :
          datatype_diff[i].table \in SourceTables \cap CloneTables

\* A table of one schema only beside a common table that has rows.
C8_Witness ==
    /\ val_pc = "done"
    /\ SourceTables # CloneTables
    /\ Len(column_diff) >= 1
    /\ Len(datatype_diff) >= 1

\* C14: the table comparison's rows are ascending by (classification,
\* table_name): no row of the label "Missing in source - ..." precedes a row
\* of the smaller label "Missing in clone - ...", and within one label the
\* table names ascend.
C14_TableDiffSorted ==
    TablesCompared =>
        \A i, j \in 1..Len(table_diff) :
            i < j =>
                /\ ~(/\ table_diff[i].difference
                            = "Missing in source - Table Dropped"
                     /\ table_diff[j].difference
                            = "Missing in clone - Table Added")
                /\ table_diff[i].difference = table_diff[j].difference
                       => table_diff[i].table < table_diff[j].table

\* Two rows of different labels, the first with the larger table name.
C14_Witness ==
    /\ TablesCompared
    /\ Len(table_diff) >= 2
    /\ table_diff[1].difference # table_diff[2].difference
    /\ table_diff[1].table > table_diff[2].table

----------------------------------------------------------------------------
(* Claims about the table-name substitution *)

\* the length of the longest prefix of text made of word characters only
\* (word = TRUE) or of other characters only (word = FALSE)
RECURSIVE RunLength(_, _)
RunLength(text, word) ==
    IF text = <<>> \/ IsWordChar(Head(text)) # word THEN 0
    ELSE 1 + RunLength(Tail(text), word)

UpperCased(text) == [k \in 1..Len(text) |-> CaseFold(text[k])]

\* text cut into its maximal runs of word characters (its identifiers and
\* keywords) and the text between them; a run that is ORDER_DATA in any
\* letter case becomes the qualified name, everything else is kept.
RECURSIVE WholeWordsRewritten(_, _)
WholeWordsRewritten(text, qualified) ==
    IF text = <<>> THEN <<>>
    ELSE LET n == RunLength(text, IsWordChar(Head(text)))
             run == SubSeq(text, 1, n)
         IN  (IF UpperCased(run) = ORDER_DATA THEN qualified ELSE run)
             \o WholeWordsRewritten(SubSeq(text, n + 1, Len(text)), qualified)

\* C13: the substitution replaces every whole-word, case-insensitive
\* occurrence of ORDER_DATA with <database>.<schema>.ORDER_DATA of the side,
\* and keeps every occurrence inside a longer identifier and all other text.
C13_WholeWordSubstitution ==
    /\ sub_pc \in {"clone", "done"} =>
           source_query = WholeWordsRewritten(kpi_sql,
               database \o <<".">> \o source_schema \o <<".", "O", "R",
                   "D", "E", "R", "_", "D", "A", "T", "A">>)
    /\ sub_pc = "done" =>
           clone_query = WholeWordsRewritten(kpi_sql,
               database \o <<".">> \o target_schema \o <<".", "O", "R",
                   "D", "E", "R", "_", "D", "A", "T", "A">>)

\* "order_data MY_ORDER_DATA": the first occurrence is rewritten, the second
\* is part of a longer identifier and is kept.
C13_Witness ==
    /\ sub_pc = "done"
    /\ kpi_sql = <<"o", "r", "d", "e", "r", "_", "d", "a", "t", "a", " ",
                   "M", "Y", "_", "O", "R", "D", "E", "R", "_", "D", "A",
                   "T", "A">>
    /\ source_schema = <<"S", "R", "C">>
    /\ source_query = <<"D", "B", ".", "S", "R", "C", ".", "O", "R", "D",
                        "E", "R", "_", "D", "A", "T", "A", " ", "M", "Y",
                        "_", "O", "R", "D", "E", "R", "_", "D", "A", "T",
                        "A">>

----------------------------------------------------------------------------
(* Claims about repeated runs and about the session *)

\* C15: a run of the table and column comparison on unchanged catalogs
\* yields the output of the run before it, the order of the rows of the
\* three lists included.
C15_RerunIdentical ==
    (val_pc = "done" /\ previous_run.ran) =>
        /\ table_diff = previous_run.table_diff
        /\ column_diff = previous_run.column_diff
        /\ datatype_diff = previous_run.datatype_diff

\* C16: whenever login_success is true, the session's conn is a connection
\* (not None), whatever login submissions and Disconnect presses came before.
C16_LoginSuccessImpliesConn ==
    login_success => conn # NoConn

====
